---------------------------- MODULE Spec2Model ----------------------------
(***************************************************************************)
(* Musical-Keyboard: the musical context of src/lib/musicUtils.ts as a     *)
(* state machine.  Strings are TLA+ strings; a JavaScript string index i   *)
(* (0-based) is position i+1 here.  Time is in milliseconds (Tone.now()    *)
(* is in seconds: 2 s is 2000), a velocity is in hundredths (0.7 is 70), a *)
(* duration in milliseconds and a random draw of Math.random() in tenths   *)
(* (0.6 is 6), a gain in hundredths (0.8 is 80) and a level in decibels in  *)
(* hundredths of a decibel.  The synth and the effects are tracked as      *)
(* existing or not, the synth with its volume; the wet levels of the       *)
(* effects are not tracked.  A timer runs when it falls due, the earliest  *)
(* first.  The components of src/components (Home, KeyboardCanvas,         *)
(* SettingsPanel) drive the module: their React state is the second group  *)
(* of variables, a render and its effects are one step, and a promise      *)
(* callback runs before any other event.                                   *)
(* An event may be handled between a state update and the render that     *)
(* follows it: its handler is then the one of the previous render.         *)
(***************************************************************************)
EXTENDS Integers, Sequences, FiniteSets, TLC

VARIABLES
    synth,              \* "null" or "live": the Tone.PolySynth
    synthVolume,        \* <<synth.volume.value>>, or <<>> without a synth
    reverb,             \* "null" or "live": the Tone.Reverb
    delay,              \* "null" or "live": the Tone.FeedbackDelay
    initsAwaiting,      \* initAudioEngine calls suspended at await Tone.start()
    currentScale,       \* name of the current scale
    currentProgression, \* index into CHORD_PROGRESSIONS
    progressionIndex,   \* cursor inside the active progression
    lastNotesPlayed,    \* the last notes played (at most 8)
    notesInQueue,       \* recent notes, [note, time]
    now,                \* the clock (Tone.now(), and the timers' clock)
    timers,             \* pending setTimeout callbacks, in registration order
    nPlays,             \* number of accepted playNote calls so far
    allPlayed,          \* every note an accepted playNote call recorded
    ev,                 \* the operation the last step performed
    emitted,            \* the synth requests the last step made, in order
    \* Home and KeyboardCanvas
    appState,           \* "welcome" or "active"
    homeSettings,       \* Home's settings state
    mounts,             \* number of KeyboardCanvas instances mounted so far
    audioInitialized,   \* state of the mounted canvas
    activeKeys,         \* state of the mounted canvas: the key visuals
    lastKeyPressTime,   \* ref of the mounted canvas
    rendered,           \* the state and props the last render of the canvas saw
    thens,              \* promise callbacks ready to run
    ui                  \* the user-interface event the last step handled

vars == <<synth, synthVolume, reverb, delay, initsAwaiting, currentScale,
          currentProgression, progressionIndex, lastNotesPlayed, notesInQueue,
          now, timers, nPlays, allPlayed, ev, emitted, appState, homeSettings,
          mounts, audioInitialized, activeKeys, lastKeyPressTime, rendered,
          thens, ui>>

context == <<currentScale, currentProgression, progressionIndex,
             lastNotesPlayed, notesInQueue>>

engine == <<synth, synthVolume, reverb, delay, initsAwaiting>>

\* The state of the components, and all that is theirs
component == <<appState, homeSettings, mounts, audioInitialized, activeKeys,
               lastKeyPressTime, rendered>>

canvas == <<component, thens, ui>>

-----------------------------------------------------------------------------
(* Bounds of the model *)

MaxPlays == 2
MaxTime == 2100
MaxAwaiting == 1
MaxSessionPlays == 3
MaxHarmonyPlays == 2
MaxLazyPlays == 2
MaxLazyAwaiting == 2
MaxHistoryPlays == 10
MaxPurityPlays == 2
MaxMounts == 2
MaxApplies == 1
MaxCanvasAwaiting == 2
MaxCanvasPlays == 1
MaxVisuals == 2

-----------------------------------------------------------------------------
(* JavaScript strings and arrays *)

\* The printable ASCII characters: codes 32..95, and codes 97..126.
AsciiLow == " !\"#$%&'()*+,-./0123456789:;<=>?@ABCDEFGHIJKLMNOPQRSTUVWXYZ[\\]^_"
AsciiHigh == "abcdefghijklmnopqrstuvwxyz{|}~"

charAt(s, i) == IF i >= 0 /\ i < Len(s) THEN SubSeq(s, i + 1, i + 1) ELSE ""

\* The code of each of these characters
CharCodes ==
    { <<SubSeq(AsciiLow, i, i), 31 + i>> : i \in 1..Len(AsciiLow) }
    \cup { <<SubSeq(AsciiHigh, i, i), 96 + i>> : i \in 1..Len(AsciiHigh) }

Chars == { cc[1] : cc \in CharCodes }

CodeOf == [ ch \in Chars |-> (CHOOSE cc \in CharCodes : cc[1] = ch)[2] ]

\* s.charCodeAt(0) of a string whose first character is printable ASCII.
charCodeAt0(s) == CodeOf[charAt(s, 0)]

isUpperCode(c) == c >= 65 /\ c <= 90
isLowerCode(c) == c >= 97 /\ c <= 122
isDigitCode(c) == c >= 48 /\ c <= 57

codesOf(s) == { charCodeAt0(charAt(s, i)) : i \in 0..(Len(s) - 1) }

\* /[A-Z]/i.test(key): some character of the key is an ASCII letter.
testLetter(key) == \E c \in codesOf(key) : isUpperCode(c) \/ isLowerCode(c)

\* /[0-9]/.test(key)
testDigit(key) == \E c \in codesOf(key) : isDigitCode(c)

\* key.toUpperCase().charCodeAt(0)
upperCode0(key) ==
    LET c == charCodeAt0(key) IN IF isLowerCode(c) THEN c - 32 ELSE c

\* parseInt of a string of one character: its digit, or NaN.
parseInt1(s) ==
    LET c == charCodeAt0(s) IN IF isDigitCode(c) THEN c - 48 ELSE "NaN"

\* s.includes(ch) for a one-character ch
includes(s, ch) == \E i \in 0..(Len(s) - 1) : charAt(s, i) = ch

\* arr.indexOf(x): the first index holding x, or -1
indexOf(arr, x) ==
    IF \E i \in 1..Len(arr) : arr[i] = x
    THEN (CHOOSE i \in 1..Len(arr) : arr[i] = x /\ \A j \in 1..(i - 1) : arr[j] # x) - 1
    ELSE -1

\* arr[i] of a JavaScript array
at(arr, i) == IF i >= 0 /\ i < Len(arr) THEN arr[i + 1] ELSE "undefined"

\* Mutant: arr.slice(0, n), the first n
sliceFirst(arr, n) ==
    IF Len(arr) <= n THEN arr ELSE SubSeq(arr, 1, n)

\* arr.slice(-n)
sliceLast(arr, n) ==
    IF Len(arr) <= n THEN arr ELSE SubSeq(arr, Len(arr) - n + 1, Len(arr))

\* `${name}${octave}`
fmtNote(name, octave) == name \o ToString(octave)

-----------------------------------------------------------------------------
(* The tables *)

SCALES ==
    [ major      |-> <<"C", "D", "E", "F", "G", "A", "B">>,
      minor      |-> <<"C", "D", "Eb", "F", "G", "Ab", "Bb">>,
      pentatonic |-> <<"C", "D", "E", "G", "A">>,
      blues      |-> <<"C", "Eb", "F", "F#", "G", "Bb">>,
      chromatic  |-> <<"C", "C#", "D", "D#", "E", "F", "F#", "G", "G#", "A", "A#", "B">> ]

ScaleNames == DOMAIN SCALES

\* Properties every object literal inherits from Object.prototype: SCALES[name]
\* finds them too.  Each is a function object; length is its arity.
ObjectPrototype ==
    [ constructor |-> [kind |-> "function", length |-> 1] ]

\* SCALES[name]: an own property (an array), an inherited one, or undefined.
scalesLookup(name) ==
    IF name \in DOMAIN SCALES
    THEN [kind |-> "array", length |-> Len(SCALES[name]), items |-> SCALES[name]]
    ELSE IF name \in DOMAIN ObjectPrototype
         THEN [kind |-> ObjectPrototype[name].kind,
               length |-> ObjectPrototype[name].length, items |-> <<>>]
         ELSE [kind |-> "undefined", length |-> 0, items |-> <<>>]

truthy(obj) == obj.kind # "undefined"

\* Every pitch class of the registry
PitchClasses ==
    UNION { { SCALES[name][i] : i \in 1..Len(SCALES[name]) } : name \in ScaleNames }

OCTAVE_RANGES ==
    [ letters |-> [min |-> 3, max |-> 5],
      numbers |-> [min |-> 2, max |-> 4],
      special |-> [min |-> 1, max |-> 3] ]

CHORD_PROGRESSIONS ==
    << <<"C", "G", "Am", "F">>,
       <<"Am", "F", "C", "G">>,
       <<"C", "Am", "F", "G">>,
       <<"C", "F", "G">>,
       <<"Cm", "G", "Cm">> >>

-----------------------------------------------------------------------------
(* keyToNote *)

\* let currentOctave = 4: keyToNote reads it and overwrites what it read
currentOctave == 4

\* Mutant: the octave is not clamped to the maximum of its class
clampMaxOmitted(octave, max) == octave

clampMax(octave, max) == IF octave > max THEN max ELSE octave

\* Mutant: a letter starts from the octave baseline, not from the class minimum
letterNoteFromBaseline(scale, key) ==
    LET letterIndex == upperCode0(key) - 65
        noteIndex == letterIndex % scale.length
        octave == currentOctave + (letterIndex \div scale.length)
    IN fmtNote(at(scale.items, noteIndex), clampMax(octave, OCTAVE_RANGES.letters.max))

letterNote(scale, key) ==
    LET letterIndex == upperCode0(key) - 65
        noteIndex == letterIndex % scale.length
        octave == OCTAVE_RANGES.letters.min + (letterIndex \div scale.length)
    IN fmtNote(at(scale.items, noteIndex), clampMax(octave, OCTAVE_RANGES.letters.max))

numberNote(scale, key) ==
    LET num == parseInt1(charAt(key, 0))
        numIndex == num % scale.length
        octave == OCTAVE_RANGES.numbers.min + (num \div scale.length)
    IN fmtNote(at(scale.items, numIndex), clampMax(octave, OCTAVE_RANGES.numbers.max))

\* Mutant: the octave of a special character from its whole code
specialNoteWholeCode(scale, key) ==
    LET charCode == charCodeAt0(key)
        noteIndex == charCode % scale.length
        octave == OCTAVE_RANGES.special.min + (charCode \div 10)
    IN fmtNote(at(scale.items, noteIndex), clampMax(octave, OCTAVE_RANGES.special.max))

specialNote(scale, key) ==
    LET charCode == charCodeAt0(key)
        noteIndex == charCode % scale.length
        octave == OCTAVE_RANGES.special.min + ((charCode % 20) \div 10)
    IN fmtNote(at(scale.items, noteIndex), clampMax(octave, OCTAVE_RANGES.special.max))

\* keyToNote(key) under the scale named scaleName
keyToNoteIn(scaleName, key) ==
    LET scale == scalesLookup(scaleName) IN
    IF testLetter(key) THEN letterNote(scale, key)
    ELSE IF testDigit(key) THEN numberNote(scale, key)
    ELSE specialNote(scale, key)

keyToNote(key) == keyToNoteIn(currentScale, key)

-----------------------------------------------------------------------------
(* Chords *)

baseOctave == 2

\* Mutant: every third is a major third
thirdSemitonesMajor(isMinor) == 4

\* Semitones from the root to the third: 3 for minor, 4 for major
thirdSemitones(isMinor) == IF isMinor THEN 3 ELSE 4

\* Mutant: no fallback for a root the chromatic table does not hold
getChordNotesWithoutFallback(chordName) ==
    LET root == charAt(chordName, 0)
        isMinor == includes(chordName, "m")
        third == thirdSemitones(isMinor)
        chromaticScale == SCALES.chromatic
        rootIndex == indexOf(chromaticScale, root)
        thirdNote == at(chromaticScale, (rootIndex + third) % 12)
        fifthNote == at(chromaticScale, (rootIndex + 7) % 12)
    IN << fmtNote(root, baseOctave),
          fmtNote(thirdNote, baseOctave),
          fmtNote(fifthNote, baseOctave) >>

getChordNotes(chordName) ==
    LET root == charAt(chordName, 0)
        isMinor == includes(chordName, "m")
        third == thirdSemitones(isMinor)
        chromaticScale == SCALES.chromatic
        rootIndex == indexOf(chromaticScale, root)
        thirdNote == at(chromaticScale, (rootIndex + third) % 12)
        fifthNote == at(chromaticScale, (rootIndex + 7) % 12)
    IN IF rootIndex = -1
       THEN << fmtNote(root, baseOctave) >>
       ELSE << fmtNote(root, baseOctave),
               fmtNote(thirdNote, baseOctave),
               fmtNote(fifthNote, baseOctave) >>

\* Mutant: the cursor moves first, and the chord it then points to is played
progressChordSequenceAfterAdvance(r, t) ==
    LET progression == CHORD_PROGRESSIONS[currentProgression + 1]
        index == (progressionIndex + 1) % Len(progression)
        chord == at(progression, index)
    IN IF synth = "null" \/ r > 2
       THEN [index |-> progressionIndex, requests |-> <<>>]
       ELSE [index |-> index,
             requests |-> << [what |-> "chord", notes |-> getChordNotes(chord),
                              duration |-> 1500, time |-> t, velocity |-> 10] >>]

\* progressChordSequence with the draw r: the cursor after it, and its request
progressChordSequence(r, t) ==
    LET progression == CHORD_PROGRESSIONS[currentProgression + 1]
        chord == at(progression, progressionIndex)
    IN IF synth = "null" \/ r > 2
       THEN [index |-> progressionIndex, requests |-> <<>>]
       ELSE [index |-> (progressionIndex + 1) % Len(progression),
             requests |-> << [what |-> "chord", notes |-> getChordNotes(chord),
                              duration |-> 1500, time |-> t, velocity |-> 10] >>]

-----------------------------------------------------------------------------
(* Harmony *)

\* Mutant: the third is scheduled after the fifth
thirdDelayAfterFifth == 100 + 50

\* The delays of the two setTimeout calls, in milliseconds
thirdDelay == 50
fifthDelay == 100

\* Mutant: no octave adjustment for wrap-around
wrapOctaveOmitted(index, noteIndex, octave) == octave

\* The wrap-around rule: an interval whose index fell below the note's is an
\* octave up.
wrapOctave(index, noteIndex, octave) ==
    IF index < noteIndex THEN octave + 1 ELSE octave

harmonyIndex(noteIndex, offset, length) == (noteIndex + offset) % length

\* generateHarmony, called at time t by the play numbered id, with the queue
\* and the history as playNote has just left them: whether it threw, and the
\* timers it registered.
generateHarmony(queue, history, t, id) ==
    LET scale == scalesLookup(currentScale)
        lastNote == history[Len(history)]
        noteName == SubSeq(lastNote, 1, Len(lastNote) - 1)
        octave == parseInt1(SubSeq(lastNote, Len(lastNote), Len(lastNote)))
        noteIndex == indexOf(scale.items, noteName)
        thirdIndex == harmonyIndex(noteIndex, 2, scale.length)
        fifthIndex == harmonyIndex(noteIndex, 4, scale.length)
        thirdOctave == wrapOctave(thirdIndex, noteIndex, octave)
        fifthOctave == wrapOctave(fifthIndex, noteIndex, octave)
    IN IF synth = "null" \/ Len(queue) < 2 \/ Len(history) = 0
       THEN [threw |-> FALSE, timers |-> <<>>]
       ELSE IF scale.kind # "array"
       THEN [threw |-> TRUE, timers |-> <<>>]   \* scale.indexOf is not a function
       ELSE IF noteIndex = -1
       THEN [threw |-> FALSE, timers |-> <<>>]
       ELSE [threw |-> FALSE,
             timers |->
               << [what |-> "third", trigger |-> id, due |-> t + thirdDelay,
                   note |-> fmtNote(at(scale.items, thirdIndex), thirdOctave),
                   duration |-> 400, velocity |-> 40],
                  [what |-> "fifth", trigger |-> id, due |-> t + fifthDelay,
                   note |-> fmtNote(at(scale.items, fifthIndex), fifthOctave),
                   duration |-> 300, velocity |-> 30] >>]

-----------------------------------------------------------------------------
(* Calls of initAudioEngine *)

\* initAudioEngine = async (volume = 0.5)
DefaultVolume == 50

\* Tone.gainToDb(gain) = 20 * log10(gain), for the gains the callers pass
gainToDb(gain) ==
    CASE gain = 30 -> -1046
      [] gain = 50 -> -602
      [] gain = 80 -> -194
      [] gain = 100 -> 0

\* A call of initAudioEngine(volume) and what its caller chained to it: then
\* is "none", "log" (playNote), "mount" (the effect of canvas number c) or
\* "key" (the key handler of canvas c, which had read soundEnabled).
initCall(volume, then, c, soundEnabled) ==
    [volume |-> volume, then |-> then, canvas |-> c, soundEnabled |-> soundEnabled]

\* The callbacks that do more than log
chained(call) == call.then \in {"mount", "key"}

-----------------------------------------------------------------------------
(* playNote *)

\* Mutant: a note exactly 2 seconds old is kept
pruneQueueInclusive(queue, t) == SelectSeq(queue, LAMBDA n : t - n.time <= 2000)

\* Mutant: the queue is never cleaned
pruneQueueOmitted(queue, t) == queue

\* The 2 second window of the recent-note queue
pruneQueue(queue, t) == SelectSeq(queue, LAMBDA n : t - n.time < 2000)

\* notesInQueue.length > 1 && Math.random() > 0.6
harmonyDue(queue, r) == Len(queue) > 1 /\ r > 6

\* A note name the synth can resolve: a pitch class and an octave.
playable(note) ==
    /\ Len(note) >= 2
    /\ SubSeq(note, 1, Len(note) - 1) \in PitchClasses
    /\ isDigitCode(charCodeAt0(SubSeq(note, Len(note), Len(note))))

\* Mutant: the note is recorded before the synth is looked at
PlayNoteRecordedThenDropped(key, duration, velocity) ==
    /\ synth = "null"
    /\ initsAwaiting' = Append(initsAwaiting, initCall(DefaultVolume, "log", 0, FALSE))
    /\ lastNotesPlayed' = sliceLast(Append(lastNotesPlayed, keyToNote(key)), 8)
    /\ notesInQueue' = Append(notesInQueue, [note |-> keyToNote(key), time |-> now])
    /\ ev' = [op |-> "playNote", accepted |-> FALSE]
    /\ emitted' = <<>>
    /\ UNCHANGED <<synth, synthVolume, reverb, delay, currentScale,
                   currentProgression, progressionIndex, now, timers, nPlays,
                   allPlayed>>

\* playNote(key, duration, velocity) while the synth is null: initAudioEngine()
\* is started (and suspends at its await) and the note is dropped.
PlayNoteDropped(key, duration, velocity) ==
    /\ synth = "null"
    /\ initsAwaiting' = Append(initsAwaiting, initCall(DefaultVolume, "log", 0, FALSE))
    /\ ev' = [op |-> "playNote", accepted |-> FALSE]
    /\ emitted' = <<>>
    /\ UNCHANGED <<synth, synthVolume, reverb, delay, context, now, timers,
                   nPlays, allPlayed>>

\* playNote(key, duration, velocity) with a synth; rH and rC are the draws of
\* playNote and progressChordSequence, threw whether the synth rejected the note.
\* ev keeps whether rC was at most 0.2.
PlayNoteAccepted(key, duration, velocity, rH, rC, threw) ==
    LET note == keyToNote(key)
        history == sliceLast(Append(lastNotesPlayed, note), 8)
        queue == pruneQueue(Append(notesInQueue, [note |-> note, time |-> now]), now)
        request == [what |-> "note", notes |-> <<note>>, duration |-> duration,
                    time |-> now, velocity |-> velocity]
        harmony == IF harmonyDue(queue, rH)
                   THEN generateHarmony(queue, history, now, nPlays + 1)
                   ELSE [threw |-> FALSE, timers |-> <<>>]
        chords == progressChordSequence(rC, now)
    IN /\ synth # "null"
       /\ threw => ~playable(note)
       /\ nPlays' = nPlays + 1
       /\ allPlayed' = Append(allPlayed, note)
       /\ lastNotesPlayed' = history
       /\ notesInQueue' = queue
       /\ ev' = [op |-> "playNote", accepted |-> TRUE, lowDraw |-> rC <= 2]
       /\ IF threw
          THEN /\ emitted' = <<>>
               /\ UNCHANGED <<timers, progressionIndex>>
          ELSE IF harmony.threw
          THEN /\ emitted' = <<request>>
               /\ UNCHANGED <<timers, progressionIndex>>
          ELSE /\ emitted' = <<request>> \o chords.requests
               /\ timers' = timers \o harmony.timers
               /\ progressionIndex' = chords.index
       /\ UNCHANGED <<engine, currentScale, currentProgression, now>>

-----------------------------------------------------------------------------
(* Timers *)

\* The timer that runs next: the earliest due, the first registered among equals.
nextTimer ==
    CHOOSE i \in 1..Len(timers) :
        \A j \in 1..Len(timers) :
            \/ timers[i].due < timers[j].due
            \/ (timers[i].due = timers[j].due /\ i <= j)

removeAt(seq, i) == SubSeq(seq, 1, i - 1) \o SubSeq(seq, i + 1, Len(seq))

\* A harmony callback runs: synth?.triggerAttackRelease(note, d, Tone.now(), v)
TimerFire ==
    /\ Len(timers) > 0
    /\ timers[nextTimer].due <= now
    /\ LET tm == timers[nextTimer] IN
         /\ emitted' = IF synth = "null" THEN <<>>
                       ELSE << [what |-> tm.what, notes |-> <<tm.note>>,
                                duration |-> tm.duration, time |-> now,
                                velocity |-> tm.velocity] >>
         /\ ev' = [op |-> "timer", what |-> tm.what, trigger |-> tm.trigger]
    /\ timers' = removeAt(timers, nextTimer)
    /\ UNCHANGED <<engine, context, now, nPlays, allPlayed>>

\* Nothing happens for d milliseconds: no timer falls due before that.
Idle(d) ==
    /\ now + d <= MaxTime
    /\ \A i \in 1..Len(timers) : timers[i].due >= now + d
    /\ now' = now + d
    /\ ev' = [op |-> "idle"]
    /\ emitted' = <<>>
    /\ UNCHANGED <<engine, context, timers, nPlays, allPlayed>>

\* Nothing happens until the next timer falls due.
TimerWait ==
    /\ Len(timers) > 0
    /\ timers[nextTimer].due > now
    /\ timers[nextTimer].due <= MaxTime
    /\ now' = timers[nextTimer].due
    /\ ev' = [op |-> "idle"]
    /\ emitted' = <<>>
    /\ UNCHANGED <<engine, context, timers, nPlays, allPlayed>>

-----------------------------------------------------------------------------
(* The audio engine *)

\* initAudioEngine(volume) up to its await: it returns at once with a synth.
InitAudioEngine(volume) ==
    /\ initsAwaiting' = IF synth # "null" THEN initsAwaiting
                        ELSE Append(initsAwaiting, initCall(volume, "none", 0, FALSE))
    /\ ev' = [op |-> "initAudioEngine"]
    /\ emitted' = <<>>
    /\ UNCHANGED <<synth, synthVolume, reverb, delay, context, now, timers,
                   nPlays, allPlayed>>

\* Tone.start() resolved for the call that has waited longest: a synth and the
\* effects are created, whatever there was, and a silent note is played.  The
\* promise of the call resolves: its callback is ready.
InitResume ==
    /\ initsAwaiting # <<>>
    /\ initsAwaiting' = Tail(initsAwaiting)
    /\ synth' = "live"
    /\ synthVolume' = << gainToDb(Head(initsAwaiting).volume) >>
    /\ reverb' = "live"
    /\ delay' = "live"
    /\ thens' = IF chained(Head(initsAwaiting))
                THEN Append(thens, Head(initsAwaiting)) ELSE thens
    /\ ev' = [op |-> "initResume"]
    /\ emitted' = << [what |-> "silent", notes |-> <<"C4">>, duration |-> 10,
                      time |-> now, velocity |-> 1] >>
    /\ UNCHANGED <<context, now, timers, nPlays, allPlayed>>

\* Tone.start() rejected: the catch logs it, and the promise of the call
\* resolves all the same.
InitFail ==
    /\ initsAwaiting # <<>>
    /\ initsAwaiting' = Tail(initsAwaiting)
    /\ thens' = IF chained(Head(initsAwaiting))
                THEN Append(thens, Head(initsAwaiting)) ELSE thens
    /\ ev' = [op |-> "initFail"]
    /\ emitted' = <<>>
    /\ UNCHANGED <<synth, synthVolume, reverb, delay, context, now, timers,
                   nPlays, allPlayed>>

cleanupAudioEngine ==
    /\ synth' = "null"
    /\ synthVolume' = <<>>
    /\ reverb' = "null"
    /\ delay' = "null"
    /\ ev' = [op |-> "cleanupAudioEngine"]
    /\ emitted' = <<>>
    /\ UNCHANGED <<initsAwaiting, context, now, timers, nPlays, allPlayed>>

-----------------------------------------------------------------------------
(* updateMusicSettings *)

\* Math.floor(Math.random() * CHORD_PROGRESSIONS.length)
randomProgression(r) == (r * Len(CHORD_PROGRESSIONS)) \div 10

\* settings.scale !== undefined && SCALES[settings.scale]
scaleAccepted(settings) == settings.hasScale /\ truthy(scalesLookup(settings.scale))

\* Mutant: the progression is replaced and the cursor kept
randomizeProgressionKeepingCursor(r1, r2) ==
    IF r1 > 7
    THEN [progression |-> randomProgression(r2), index |-> progressionIndex]
    ELSE [progression |-> currentProgression, index |-> progressionIndex]

\* if (Math.random() > 0.7) { currentProgression = ...; progressionIndex = 0 }
randomizeProgression(r1, r2) ==
    IF r1 > 7
    THEN [progression |-> randomProgression(r2), index |-> 0]
    ELSE [progression |-> currentProgression, index |-> progressionIndex]

\* updateMusicSettings(settings); r1 and r2 are its two draws.
updateMusicSettings(settings, r1, r2) ==
    /\ ev' = [op |-> "updateMusicSettings", settings |-> settings]
    /\ emitted' = <<>>
    /\ IF synth = "null" \/ reverb = "null" \/ delay = "null"
       THEN UNCHANGED <<context, synthVolume>>
       ELSE /\ synthVolume' = IF settings.hasVolume
                              THEN << gainToDb(settings.volume) >>
                              ELSE synthVolume
            /\ currentScale' = IF scaleAccepted(settings) THEN settings.scale
                               ELSE currentScale
            /\ currentProgression' = randomizeProgression(r1, r2).progression
            /\ progressionIndex' = randomizeProgression(r1, r2).index
            /\ UNCHANGED <<lastNotesPlayed, notesInQueue>>
    /\ UNCHANGED <<synth, reverb, delay, initsAwaiting, now, timers, nPlays,
                   allPlayed>>

-----------------------------------------------------------------------------
(* Home and KeyboardCanvas *)

\* DEFAULT_SETTINGS of Home, the fields the canvas and the engine read; rev
\* counts the settings objects Home has made (a new object at each apply)
DEFAULT_SETTINGS ==
    [soundEnabled |-> TRUE, colorScheme |-> "rainbow", volume |-> 80, rev |-> 0]

\* What a render sees before the canvas is mounted: nothing
Unmounted ==
    [audioInitialized |-> FALSE, activeKeys |-> <<>>, settings |-> DEFAULT_SETTINGS]

\* What a render of the mounted canvas sees: its state and its props
snapshot ==
    [audioInitialized |-> audioInitialized, activeKeys |-> activeKeys,
     settings |-> homeSettings]

\* settings.volume / 100, a gain, in hundredths
percentGain(volume) == (100 * volume) \div 100

NoUi == [op |-> "none"]

\* initAudioEngine(...) called while the synth is live or not: with a synth it
\* returns at once and its callback is ready, without one it waits.
initAudioEngineCalled(live, call, awaiting, ready) ==
    IF live THEN [awaiting |-> awaiting, thens |-> Append(ready, call)]
    ELSE [awaiting |-> Append(awaiting, call), thens |-> ready]

\* handleStart, and the mount of the canvas it brings: the first render and the
\* audio effect, which starts the engine if sound is enabled.
Start ==
    LET call == initCall(percentGain(homeSettings.volume), "mount", mounts + 1, FALSE)
        inited == IF homeSettings.soundEnabled
                  THEN initAudioEngineCalled(synth # "null", call, initsAwaiting, thens)
                  ELSE [awaiting |-> initsAwaiting, thens |-> thens]
    IN /\ appState = "welcome"
       /\ thens = <<>>
       /\ Len(inited.awaiting) <= MaxCanvasAwaiting
       /\ appState' = "active"
       /\ mounts' = mounts + 1
       /\ audioInitialized' = FALSE
       /\ activeKeys' = <<>>
       /\ lastKeyPressTime' = 0
       /\ rendered' = [audioInitialized |-> FALSE, activeKeys |-> <<>>,
                       settings |-> homeSettings]
       /\ initsAwaiting' = inited.awaiting
       /\ thens' = inited.thens
       /\ ui' = [op |-> "start"]
       /\ ev' = IF homeSettings.soundEnabled THEN [op |-> "initAudioEngine"] ELSE NoUi
       /\ emitted' = <<>>
       /\ UNCHANGED <<synth, synthVolume, reverb, delay, context, now, timers,
                      nPlays, allPlayed, homeSettings>>

\* Mutant: the handler goes on after onEscapePressed() and plays the key
EscapeWithoutReturn ==
    /\ appState = "active"
    /\ thens = <<>>
    /\ appState' = "welcome"
    /\ audioInitialized' = FALSE
    /\ activeKeys' = <<>>
    /\ lastKeyPressTime' = 0
    /\ rendered' = Unmounted
    /\ ui' = [op |-> "keyDown", key |-> "Escape", added |-> FALSE]
    /\ synth' = "null"
    /\ synthVolume' = <<>>
    /\ reverb' = "null"
    /\ delay' = "null"
    /\ ev' = [op |-> "cleanupAudioEngine"]
    /\ emitted' = IF synth # "null" /\ rendered.settings.soundEnabled
                  THEN << [what |-> "note", notes |-> << keyToNote("Escape") >>,
                           duration |-> 500, time |-> now, velocity |-> 70] >>
                  ELSE <<>>
    /\ UNCHANGED <<initsAwaiting, context, now, timers, nPlays, allPlayed,
                   homeSettings, mounts, thens>>

\* handleKeyDown on Escape: onEscapePressed() and return.  Home shows the
\* welcome screen: the canvas unmounts, its effect's cleanup runs and its state
\* is gone.
Escape ==
    /\ appState = "active"
    /\ thens = <<>>
    /\ appState' = "welcome"
    /\ audioInitialized' = FALSE
    /\ activeKeys' = <<>>
    /\ lastKeyPressTime' = 0
    /\ rendered' = Unmounted
    /\ ui' = [op |-> "keyDown", key |-> "Escape", added |-> FALSE]
    /\ cleanupAudioEngine
    /\ UNCHANGED <<homeSettings, mounts, thens>>

\* A render of the mounted canvas after its state or its props changed, and
\* the effects it brings.  When settings or audioInitialized changed, the audio
\* effect is cleaned up (cleanupAudioEngine) and runs again: the engine is
\* started if sound is enabled and audioInitialized is false, and with
\* audioInitialized true updateMusicSettings is called, which returns at its
\* first line: the cleanup has just set synth to null.
Render ==
    LET effectDue == \/ rendered.settings # homeSettings
                     \/ rendered.audioInitialized # audioInitialized
        call == initCall(percentGain(homeSettings.volume), "mount", mounts, FALSE)
        starts == effectDue /\ homeSettings.soundEnabled /\ ~audioInitialized
    IN /\ appState = "active"
       /\ thens = <<>>
       /\ rendered # snapshot
       /\ rendered' = snapshot
       /\ starts => Len(initsAwaiting) < MaxCanvasAwaiting
       /\ IF effectDue
          THEN /\ synth' = "null"
               /\ synthVolume' = <<>>
               /\ reverb' = "null"
               /\ delay' = "null"
               /\ initsAwaiting' =
                      IF starts
                      THEN initAudioEngineCalled(FALSE, call, initsAwaiting, thens).awaiting
                      ELSE initsAwaiting
               /\ ev' = [op |-> "cleanupAudioEngine"]
          ELSE /\ UNCHANGED engine
               /\ ev' = NoUi
       /\ ui' = [op |-> "render", effect |-> effectDue]
       /\ emitted' = <<>>
       /\ UNCHANGED <<context, now, timers, nPlays, allPlayed, appState,
                      homeSettings, mounts, audioInitialized, activeKeys,
                      lastKeyPressTime, thens>>

\* Date.now() when the clock reads 0: any time at least a second after 1970
Epoch == 1000000

dateNow == Epoch + now

\* The duration handleKeyDown picks from the time since the last key press
noteDuration(timeSinceLastPress) ==
    IF timeSinceLastPress < 200 THEN 300
    ELSE IF timeSinceLastPress > 1000 THEN 800
    ELSE 500

\* activeKeys.some((k) => k.key === event.key), in the handler's closure
someActive(key) ==
    \E i \in 1..Len(rendered.activeKeys) : rendered.activeKeys[i].key = key

\* The initAudioEngine call of handleKeyDown and what it chained
keyCall ==
    initCall(percentGain(rendered.settings.volume), "key", mounts,
             rendered.settings.soundEnabled)

\* if (!audioInitialized) initAudioEngine(settings.volume / 100).then(...)
keyInit ==
    IF ~rendered.audioInitialized
    THEN initAudioEngineCalled(synth # "null", keyCall, initsAwaiting, thens)
    ELSE [awaiting |-> initsAwaiting, thens |-> thens]

\* handleKeyDown on a key that has a visual: it returns.
KeyDownIgnored(key) ==
    /\ appState = "active"
    /\ thens = <<>>
    /\ someActive(key)
    /\ ui' = [op |-> "keyDown", key |-> key, added |-> FALSE]
    /\ ev' = NoUi
    /\ emitted' = <<>>
    /\ UNCHANGED <<engine, context, now, timers, nPlays, allPlayed, component, thens>>

\* The part of handleKeyDown that makes the visual: setActiveKeys, the ref.
keyVisual(key) ==
    /\ appState = "active"
    /\ thens = <<>>
    /\ ~someActive(key)
    /\ Len(activeKeys) < MaxVisuals
    /\ activeKeys' = Append(activeKeys, [key |-> key, timestamp |-> dateNow])
    /\ lastKeyPressTime' = dateNow
    /\ ui' = [op |-> "keyDown", key |-> key, added |-> TRUE]
    /\ UNCHANGED <<appState, homeSettings, mounts, audioInitialized, rendered>>

\* handleKeyDown with sound disabled: the visual, and the engine is started
\* if the canvas has not seen it initialised.
KeyDownSilent(key) ==
    /\ ~rendered.settings.soundEnabled
    /\ keyVisual(key)
    /\ Len(keyInit.awaiting) <= MaxCanvasAwaiting
    /\ initsAwaiting' = keyInit.awaiting
    /\ thens' = keyInit.thens
    /\ ev' = IF rendered.audioInitialized THEN NoUi ELSE [op |-> "initAudioEngine"]
    /\ emitted' = <<>>
    /\ UNCHANGED <<synth, synthVolume, reverb, delay, context, now, timers,
                   nPlays, allPlayed>>

\* handleKeyDown with sound enabled and no synth: playNote starts the engine
\* once more and drops the note.
KeyDownDropped(key) ==
    /\ rendered.settings.soundEnabled
    /\ synth = "null"
    /\ keyVisual(key)
    /\ Len(keyInit.awaiting) < MaxCanvasAwaiting
    /\ initsAwaiting' = Append(keyInit.awaiting, initCall(DefaultVolume, "log", 0, FALSE))
    /\ thens' = keyInit.thens
    /\ ev' = [op |-> "playNote", accepted |-> FALSE]
    /\ emitted' = <<>>
    /\ UNCHANGED <<synth, synthVolume, reverb, delay, context, now, timers,
                   nPlays, allPlayed>>

\* handleKeyDown with sound enabled and a synth: playNote(event.key, noteDuration)
KeyDownPlayed(key, rH, rC, threw) ==
    /\ rendered.settings.soundEnabled
    /\ synth # "null"
    /\ keyVisual(key)
    /\ thens' = keyInit.thens
    /\ PlayNoteAccepted(key, noteDuration(dateNow - lastKeyPressTime), 70, rH, rC, threw)

\* The canvas whose effect or handler made this call is still the mounted one
mounted(call) == appState = "active" /\ call.canvas = mounts

\* The callback of the effect's call, or of the handler's with sound disabled:
\* setAudioInitialized(true), which a canvas that has unmounted ignores.
ThenSetInitialized ==
    /\ thens # <<>>
    /\ Head(thens).then = "mount" \/ ~Head(thens).soundEnabled
    /\ thens' = Tail(thens)
    /\ audioInitialized' = (mounted(Head(thens)) \/ audioInitialized)
    /\ ui' = [op |-> "then", call |-> Head(thens).then]
    /\ ev' = NoUi
    /\ emitted' = <<>>
    /\ UNCHANGED <<engine, context, now, timers, nPlays, allPlayed, appState,
                   homeSettings, mounts, activeKeys, lastKeyPressTime, rendered>>

\* The callback of the handler's call: setAudioInitialized(true) and the test
\* note, playNote("A", 0.3, 0.5), with a synth
ThenTestNotePlayed(rH, rC, threw) ==
    /\ thens # <<>>
    /\ Head(thens).then = "key" /\ Head(thens).soundEnabled
    /\ synth # "null"
    /\ thens' = Tail(thens)
    /\ audioInitialized' = (mounted(Head(thens)) \/ audioInitialized)
    /\ ui' = [op |-> "then", call |-> Head(thens).then]
    /\ PlayNoteAccepted("A", 300, 50, rH, rC, threw)
    /\ UNCHANGED <<appState, homeSettings, mounts, activeKeys, lastKeyPressTime,
                   rendered>>

\* The same without a synth (Tone.start() was rejected): the test note is
\* dropped and playNote starts the engine.
ThenTestNoteDropped ==
    /\ thens # <<>>
    /\ Head(thens).then = "key" /\ Head(thens).soundEnabled
    /\ Len(initsAwaiting) < MaxCanvasAwaiting
    /\ thens' = Tail(thens)
    /\ audioInitialized' = (mounted(Head(thens)) \/ audioInitialized)
    /\ ui' = [op |-> "then", call |-> Head(thens).then]
    /\ PlayNoteDropped("A", 300, 50)
    /\ UNCHANGED <<appState, homeSettings, mounts, activeKeys, lastKeyPressTime,
                   rendered>>

\* onAnimationComplete of a visual the canvas has rendered, a second after it
\* appeared: removeKey(id), the id being the key and the time of its press.
removeKey(i) ==
    /\ appState = "active"
    /\ thens = <<>>
    /\ i \in 1..Len(rendered.activeKeys)
    /\ dateNow >= rendered.activeKeys[i].timestamp + 1000
    /\ activeKeys' = SelectSeq(activeKeys, LAMBDA k : k # rendered.activeKeys[i])
    /\ ui' = [op |-> "removeKey"]
    /\ ev' = NoUi
    /\ emitted' = <<>>
    /\ UNCHANGED <<engine, context, now, timers, nPlays, allPlayed, appState,
                   homeSettings, mounts, audioInitialized, lastKeyPressTime,
                   rendered, thens>>

\* handleApply of the settings panel and handleApplySettings of Home: a new
\* settings object, and updateMusicSettings on the engine as it is.
handleApplySettings(newSettings, r1, r2) ==
    /\ appState = "active"
    /\ thens = <<>>
    /\ homeSettings.rev < MaxApplies
    /\ homeSettings' = [soundEnabled |-> newSettings.soundEnabled,
                        colorScheme |-> homeSettings.colorScheme,
                        volume |-> newSettings.volume,
                        rev |-> homeSettings.rev + 1]
    /\ ui' = [op |-> "applySettings"]
    /\ updateMusicSettings([hasVolume |-> TRUE,
                            volume |-> percentGain(newSettings.volume),
                            hasScale |-> TRUE,
                            scale |-> newSettings.musicalScale], r1, r2)
    /\ UNCHANGED <<appState, mounts, audioInitialized, activeKeys,
                   lastKeyPressTime, rendered, thens>>

-----------------------------------------------------------------------------
(* The module as its callers drive it *)

\* Math.random(), in tenths
Draws == {2, 4, 6, 7, 8}

\* A draw that is taken only under a condition: any draw, or none (0)
SecondDraws(taken) == IF taken THEN Draws ELSE {0}

\* Pauses between two key presses
Delays == {1950, 2000}

\* playNote as the canvas calls it (the key, the default velocity) and the
\* test note of its first key press
Plays ==
    { [key |-> "a", duration |-> 500, velocity |-> 70],
      [key |-> "A", duration |-> 300, velocity |-> 50] }

\* The volume of the canvas's default settings, as a gain: 80 / 100
InitVolumes == {80}

\* The settings objects of the callers: a volume and a scale name
SettingsInputs ==
    { [hasVolume |-> TRUE, volume |-> 80, hasScale |-> TRUE, scale |-> s] :
          s \in {"major", "dorian", "constructor"} }

\* No component is mounted
NoCanvas ==
    /\ appState = "welcome"
    /\ homeSettings = DEFAULT_SETTINGS
    /\ mounts = 0
    /\ audioInitialized = FALSE
    /\ activeKeys = <<>>
    /\ lastKeyPressTime = 0
    /\ rendered = Unmounted
    /\ thens = <<>>
    /\ ui = [op |-> "none"]

Init ==
    /\ synth = "null"
    /\ synthVolume = <<>>
    /\ reverb = "null"
    /\ delay = "null"
    /\ initsAwaiting = <<>>
    /\ currentScale = "pentatonic"
    /\ currentProgression = 0
    /\ progressionIndex = 0
    /\ lastNotesPlayed = <<>>
    /\ notesInQueue = <<>>
    /\ now = 0
    /\ timers = <<>>
    /\ nPlays = 0
    /\ allPlayed = <<>>
    /\ ev = [op |-> "init"]
    /\ emitted = <<>>
    /\ NoCanvas

Next ==
    \/ /\ synth = "null" => Len(initsAwaiting) < MaxAwaiting
       /\ \E v \in InitVolumes : InitAudioEngine(v)
       /\ UNCHANGED canvas
    \/ InitResume /\ UNCHANGED canvas
    \/ InitFail /\ UNCHANGED canvas
    \/ cleanupAudioEngine /\ UNCHANGED canvas
    \/ /\ Len(initsAwaiting) < MaxAwaiting
       /\ \E p \in Plays : PlayNoteDropped(p.key, p.duration, p.velocity)
       /\ UNCHANGED canvas
    \/ /\ nPlays < MaxPlays
       /\ \E p \in Plays : \E rH \in Draws : \E rC \in Draws :
          \E threw \in (IF playable(keyToNote(p.key)) THEN {FALSE} ELSE BOOLEAN) :
              PlayNoteAccepted(p.key, p.duration, p.velocity, rH, rC, threw)
       /\ UNCHANGED canvas
    \/ \E s \in SettingsInputs : \E r1 \in Draws : \E r2 \in SecondDraws(r1 > 7) :
           updateMusicSettings(s, r1, r2) /\ UNCHANGED canvas
    \/ TimerFire /\ UNCHANGED canvas
    \/ TimerWait /\ UNCHANGED canvas
    \/ \E d \in Delays : Idle(d) /\ UNCHANGED canvas

Spec == Init /\ [][Next]_vars

-----------------------------------------------------------------------------
(* One session of an initialised engine: the state Spec reaches by         *)
(* InitAudioEngine and InitResume, then key presses, settings changes and  *)
(* timers, with no cleanup.                                                *)

SessionSettings ==
    { [hasVolume |-> TRUE, volume |-> 80, hasScale |-> TRUE, scale |-> "major"] }

Initialised(scaleName) ==
    /\ synth = "live"
    /\ synthVolume = << gainToDb(80) >>
    /\ reverb = "live"
    /\ delay = "live"
    /\ initsAwaiting = <<>>
    /\ currentScale = scaleName
    /\ currentProgression = 0
    /\ progressionIndex = 0
    /\ lastNotesPlayed = <<>>
    /\ notesInQueue = <<>>
    /\ now = 0
    /\ timers = <<>>
    /\ nPlays = 0
    /\ allPlayed = <<>>
    /\ ev = [op |-> "initResume"]
    /\ emitted = << [what |-> "silent", notes |-> <<"C4">>, duration |-> 10,
                     time |-> 0, velocity |-> 1] >>
    /\ NoCanvas

InitSession == Initialised("pentatonic")

NextSession ==
    \/ /\ nPlays < MaxSessionPlays
       /\ \E p \in Plays : \E rH \in Draws : \E rC \in Draws :
              PlayNoteAccepted(p.key, p.duration, p.velocity, rH, rC, FALSE)
       /\ UNCHANGED canvas
    \/ \E s \in SessionSettings : \E r1 \in Draws : \E r2 \in SecondDraws(r1 > 7) :
           updateMusicSettings(s, r1, r2) /\ UNCHANGED canvas
    \/ TimerFire /\ UNCHANGED canvas
    \/ TimerWait /\ UNCHANGED canvas
    \/ \E d \in Delays : Idle(d) /\ UNCHANGED canvas

SpecSession == InitSession /\ [][NextSession]_vars

-----------------------------------------------------------------------------
(* The engine from its first call on: calls of initAudioEngine that wait   *)
(* together, key presses before and after they complete, cleanups.         *)

LazyPlays == { [key |-> "a", duration |-> 500, velocity |-> 70] }

LazyDraws == {2, 8}

NextLazy ==
    \/ /\ synth = "null" => Len(initsAwaiting) < MaxLazyAwaiting
       /\ \E v \in InitVolumes : InitAudioEngine(v)
       /\ UNCHANGED canvas
    \/ InitResume /\ UNCHANGED canvas
    \/ InitFail /\ UNCHANGED canvas
    \/ cleanupAudioEngine /\ UNCHANGED canvas
    \/ /\ Len(initsAwaiting) < MaxLazyAwaiting
       /\ \E p \in LazyPlays : PlayNoteDropped(p.key, p.duration, p.velocity)
       /\ UNCHANGED canvas
    \/ /\ nPlays < MaxLazyPlays
       /\ \E p \in LazyPlays : \E rH \in LazyDraws : \E rC \in LazyDraws :
              PlayNoteAccepted(p.key, p.duration, p.velocity, rH, rC, FALSE)
       /\ UNCHANGED canvas
    \/ TimerFire /\ UNCHANGED canvas
    \/ TimerWait /\ UNCHANGED canvas

SpecLazy == Init /\ [][NextLazy]_vars

-----------------------------------------------------------------------------
(* A long run of key presses on an initialised engine, two keys in every   *)
(* order, no harmony and no chord drawn.                                   *)

HistoryPlays == { [key |-> k, duration |-> 500, velocity |-> 70] : k \in {"a", "b"} }

HistoryDraws == {4}

NextHistory ==
    /\ nPlays < MaxHistoryPlays
    /\ \E p \in HistoryPlays : \E rH \in HistoryDraws : \E rC \in HistoryDraws :
           PlayNoteAccepted(p.key, p.duration, p.velocity, rH, rC, FALSE)
    /\ UNCHANGED canvas

SpecHistory == InitSession /\ [][NextHistory]_vars

-----------------------------------------------------------------------------
(* Harmony: an initialised engine under each scale of the registry (left   *)
(* there by updateMusicSettings), keys at several positions of the scale,  *)
(* the harmony timers, and a cleanup that may come before they run.        *)

HarmonyPlays ==
    { [key |-> k, duration |-> 500, velocity |-> 70] : k \in {"a", "b", "d", "g", "z", "7"} }
    \cup { [key |-> "A", duration |-> 300, velocity |-> 50] }

InitHarmony == \E scaleName \in ScaleNames : Initialised(scaleName)

NextHarmony ==
    \/ /\ nPlays < MaxHarmonyPlays
       /\ \E p \in HarmonyPlays : \E rH \in Draws : \E rC \in Draws :
              PlayNoteAccepted(p.key, p.duration, p.velocity, rH, rC, FALSE)
       /\ UNCHANGED canvas
    \/ TimerFire /\ UNCHANGED canvas
    \/ TimerWait /\ UNCHANGED canvas
    \/ \E d \in Delays : Idle(d) /\ UNCHANGED canvas
    \/ cleanupAudioEngine /\ UNCHANGED canvas

SpecHarmony == InitHarmony /\ [][NextHarmony]_vars

-----------------------------------------------------------------------------
(* The pure functions, applied to each input under each scale of the       *)
(* registry.  Every scale is one the module can be left in: the engine is  *)
(* initialised, updateMusicSettings names the scale, the engine is cleaned *)
(* up.                                                                     *)

\* Every key of one printable character
InputKeys == Chars

\* Chord symbols: a root letter, with or without the minor marker, and
\* symbols whose first character is no pitch class
ChordSymbols ==
    { r \o m : r \in {"A", "B", "C", "D", "E", "F", "G", "H", "c", "X"},
               m \in {"", "m"} }
    \cup {"F#", "Bb", "C#m", "m"}

\* Mutant: keyToNote records the note it returns in the history
CallKeyToNoteRecording(key) ==
    /\ ev' = [op |-> "keyToNote", key |-> key, ret |-> keyToNote(key)]
    /\ lastNotesPlayed' = sliceLast(Append(lastNotesPlayed, keyToNote(key)), 8)
    /\ UNCHANGED <<engine, currentScale, currentProgression, progressionIndex,
                   notesInQueue, now, timers, nPlays, allPlayed, emitted>>

CallKeyToNote(key) ==
    /\ ev' = [op |-> "keyToNote", key |-> key, ret |-> keyToNote(key)]
    /\ UNCHANGED <<engine, context, now, timers, nPlays, allPlayed, emitted>>

CallGetChordNotes(chordName) ==
    /\ ev' = [op |-> "getChordNotes", chord |-> chordName,
              ret |-> getChordNotes(chordName)]
    /\ UNCHANGED <<engine, context, now, timers, nPlays, allPlayed, emitted>>

InitPure ==
    /\ synth = "null"
    /\ synthVolume = <<>>
    /\ reverb = "null"
    /\ delay = "null"
    /\ initsAwaiting = <<>>
    /\ currentScale \in ScaleNames
    /\ currentProgression = 0
    /\ progressionIndex = 0
    /\ lastNotesPlayed = <<>>
    /\ notesInQueue = <<>>
    /\ now = 0
    /\ timers = <<>>
    /\ nPlays = 0
    /\ allPlayed = <<>>
    /\ ev = [op |-> "init"]
    /\ emitted = <<>>
    /\ NoCanvas

NextPure ==
    \/ \E key \in InputKeys : CallKeyToNote(key) /\ UNCHANGED canvas
    \/ \E chordName \in ChordSymbols : CallGetChordNotes(chordName) /\ UNCHANGED canvas

SpecPure == InitPure /\ [][NextPure]_vars

-----------------------------------------------------------------------------
(* keyToNote called in the course of a session: between key presses,       *)
(* harmony timers and settings updates, which change the scale once.       *)

PurityKeys == {"a", "Z", "7", "!"}

NextPurity ==
    \/ \E key \in PurityKeys : CallKeyToNote(key) /\ UNCHANGED canvas
    \/ /\ nPlays < MaxPurityPlays
       /\ \E p \in Plays : \E rH \in Draws : \E rC \in Draws :
              PlayNoteAccepted(p.key, p.duration, p.velocity, rH, rC, FALSE)
       /\ UNCHANGED canvas
    \/ \E s \in SessionSettings : \E r1 \in Draws : \E r2 \in SecondDraws(r1 > 7) :
           updateMusicSettings(s, r1, r2) /\ UNCHANGED canvas
    \/ TimerFire /\ UNCHANGED canvas
    \/ TimerWait /\ UNCHANGED canvas
    \/ \E d \in Delays : Idle(d) /\ UNCHANGED canvas

SpecPurity == InitSession /\ [][NextPurity]_vars

-----------------------------------------------------------------------------
(* The application: Home on the welcome screen, Start, key presses on the  *)
(* canvas, renders, the settings panel, Escape.  A promise callback runs   *)
(* before anything else; an engine step leaves the components alone.       *)

CanvasKeys == {"a"}

\* Draws that start no harmony, no chord and no new progression
CanvasDraws == {4}

CanvasDelays == {1000}

\* What handleApply passes on: the volume slider, the sound switch, the scale
PanelSettings ==
    { [volume |-> 30, soundEnabled |-> TRUE, musicalScale |-> "major"],
      [volume |-> 80, soundEnabled |-> FALSE, musicalScale |-> "pentatonic"] }

NextCanvas ==
    \/ mounts < MaxMounts /\ Start
    \/ Escape
    \/ Render
    \/ \E key \in CanvasKeys : KeyDownIgnored(key)
    \/ \E key \in CanvasKeys : KeyDownSilent(key)
    \/ \E key \in CanvasKeys : KeyDownDropped(key)
    \/ /\ nPlays < MaxCanvasPlays
       /\ \E key \in CanvasKeys : \E rH \in CanvasDraws : \E rC \in CanvasDraws :
              KeyDownPlayed(key, rH, rC, FALSE)
    \/ ThenSetInitialized
    \/ /\ nPlays < MaxCanvasPlays
       /\ \E rH \in CanvasDraws : \E rC \in CanvasDraws :
              ThenTestNotePlayed(rH, rC, FALSE)
    \/ ThenTestNoteDropped
    \/ \E i \in 1..MaxVisuals : removeKey(i)
    \/ \E s \in PanelSettings : \E r1 \in CanvasDraws : \E r2 \in SecondDraws(r1 > 7) :
           handleApplySettings(s, r1, r2)
    \/ thens = <<>> /\ InitResume /\ ui' = NoUi /\ UNCHANGED component
    \/ thens = <<>> /\ InitFail /\ ui' = NoUi /\ UNCHANGED component
    \/ /\ thens = <<>>
       /\ \E d \in CanvasDelays : Idle(d)
       /\ ui' = NoUi
       /\ UNCHANGED <<component, thens>>

SpecCanvas == Init /\ [][NextCanvas]_vars

-----------------------------------------------------------------------------
(* Reading a note label *)

\* The octave digit a note label ends with, and the pitch class before it
NoteOctave(note) == CodeOf[SubSeq(note, Len(note), Len(note))] - 48
NotePitch(note) == SubSeq(note, 1, Len(note) - 1)

Min(a, b) == IF a < b THEN a ELSE b

IsLetterKey(key) ==
    Len(key) = 1 /\ (isUpperCode(CodeOf[key]) \/ isLowerCode(CodeOf[key]))
IsDigitKey(key) == Len(key) = 1 /\ isDigitCode(CodeOf[key])

\* Position of a letter in the alphabet, A = 0, either case
LetterPosition(key) ==
    IF isUpperCode(CodeOf[key]) THEN CodeOf[key] - 65 ELSE CodeOf[key] - 97

-----------------------------------------------------------------------------
(* C1: under every scale of the registry, the note keyToNote returns for a *)
(* letter key a-z or A-Z carries an octave no greater than 5, the maximum  *)
(* of the letter class.                                                    *)
C1_LetterOctaveAtMostMax ==
    (ev.op = "keyToNote" /\ IsLetterKey(ev.key))
        => NoteOctave(ev.ret) <= 5

\* A letter far enough in the alphabet for the clamp to act: z, pentatonic
C1_Witness ==
    /\ ev.op = "keyToNote"
    /\ ev.key = "z"
    /\ currentScale = "pentatonic"
    /\ NoteOctave(ev.ret) = 5

(* C2: for every key of one character and every scale of the registry,    *)
(* keyToNote returns scale[index] followed by the octave: for a letter at  *)
(* position p, index p mod n and octave min(3 + p div n, 5); for a digit   *)
(* d, index d mod n and octave min(2 + d div n, 4); for any other          *)
(* character of code c, index c mod n and octave                           *)
(* min(1 + (c mod 20) div 10, 3).  The pitch class is one of the scale.    *)
C2_KeyToNoteFormula ==
    ev.op = "keyToNote" =>
        LET scale == SCALES[currentScale]
            n == Len(scale)
            c == CodeOf[ev.key]
            p == LetterPosition(ev.key)
            d == c - 48
            index == IF IsLetterKey(ev.key) THEN p % n
                     ELSE IF IsDigitKey(ev.key) THEN d % n
                     ELSE c % n
            octave == IF IsLetterKey(ev.key) THEN Min(3 + (p \div n), 5)
                      ELSE IF IsDigitKey(ev.key) THEN Min(2 + (d \div n), 4)
                      ELSE Min(1 + ((c % 20) \div 10), 3)
        IN /\ ev.ret = scale[index + 1] \o ToString(octave)
           /\ \E i \in 1..n : NotePitch(ev.ret) = scale[i]

\* A special character in the upper half of its range: ! (code 33) under blues
C2_Witness ==
    /\ ev.op = "keyToNote"
    /\ ev.key = "!"
    /\ currentScale = "blues"
    /\ ev.ret = "F#2"

(* C3: under the scale pentatonic, the default, keyToNote('A') is "C3";    *)
(* under every scale of the registry the letter A maps to the first pitch  *)
(* class of the scale at octave 3.                                         *)
C3_LetterAIsFirstPitchAtOctave3 ==
    (ev.op = "keyToNote" /\ ev.key = "A") =>
        /\ ev.ret = SCALES[currentScale][1] \o "3"
        /\ currentScale = "pentatonic" => ev.ret = "C3"

C3_Witness ==
    /\ ev.op = "keyToNote"
    /\ ev.key = "A"
    /\ currentScale = "pentatonic"
    /\ ev.ret = "C3"

\* The 12-tone chromatic table, and the pitch class k semitones above a root
ChromaticTable == <<"C", "C#", "D", "D#", "E", "F", "F#", "G", "G#", "A", "A#", "B">>

SemitonesAbove(root, k) ==
    LET pos == CHOOSE i \in 1..12 : ChromaticTable[i] = root
    IN ChromaticTable[((pos - 1 + k) % 12) + 1]

InChromaticTable(root) == \E i \in 1..12 : ChromaticTable[i] = root

RegistryChords ==
    UNION { { CHORD_PROGRESSIONS[i][j] : j \in 1..Len(CHORD_PROGRESSIONS[i]) } :
            i \in 1..Len(CHORD_PROGRESSIONS) }

(* C10: a chord symbol whose root letter is in the 12-tone chromatic table *)
(* resolves to exactly 3 notes, all at octave 2: the root, the pitch class *)
(* 4 semitones above it (3 when the symbol carries the minor marker m) and *)
(* the pitch class 7 semitones above it, positions taken modulo 12.  Every *)
(* chord symbol of the five progressions resolves this way.                *)
C10_TriadAtBackgroundOctave ==
    /\ (ev.op = "getChordNotes" /\ InChromaticTable(SubSeq(ev.chord, 1, 1))) =>
          LET root == SubSeq(ev.chord, 1, 1)
              minor == \E i \in 1..Len(ev.chord) : SubSeq(ev.chord, i, i) = "m"
          IN ev.ret = << root \o "2",
                         SemitonesAbove(root, IF minor THEN 3 ELSE 4) \o "2",
                         SemitonesAbove(root, 7) \o "2" >>
    /\ (ev.op = "getChordNotes" /\ ev.chord \in RegistryChords) =>
          /\ InChromaticTable(SubSeq(ev.chord, 1, 1))
          /\ Len(ev.ret) = 3
          /\ \A i \in 1..3 : NoteOctave(ev.ret[i]) = 2

\* A minor chord of the registry whose third and fifth wrap past the table
C10_Witness ==
    /\ ev.op = "getChordNotes"
    /\ ev.chord = "Am"
    /\ ev.ret = <<"A2", "C2", "E2">>

-----------------------------------------------------------------------------
RegistryNames == {"major", "minor", "pentatonic", "blues", "chromatic"}

(* C4: after any sequence of updateMusicSettings calls carrying arbitrary  *)
(* scale names, interleaved with any other operation, the current scale is *)
(* one of the five names of the registry (a name that is not in the        *)
(* registry leaves it unchanged).                                          *)
C4_ScaleInRegistry == currentScale \in RegistryNames

(* C5: in every state the active progression is one of the 5 of the        *)
(* registry and the cursor is a position inside it; an updateMusicSettings *)
(* that replaces the progression resets the cursor to 0, and one that does *)
(* not randomize leaves both unchanged.                                    *)
C5_CursorInsideProgression ==
    /\ [](/\ currentProgression \in 0..4
          /\ progressionIndex >= 0
          /\ progressionIndex < Len(CHORD_PROGRESSIONS[currentProgression + 1]))
    /\ [][ev'.op = "updateMusicSettings" =>
             \/ UNCHANGED <<currentProgression, progressionIndex>>
             \/ progressionIndex' = 0]_vars

\* The cursor has wrapped at the end of a progression of 3 chords that a
\* settings update had made the active one.
C5_Witness ==
    /\ currentProgression = 3
    /\ progressionIndex = 0
    /\ nPlays = 3
    /\ ev.op = "playNote"
    /\ Len(emitted) = 2
    /\ emitted[2].what = "chord"

(* C6: after every accepted playNote every entry of the recent-note queue  *)
(* is less than 2 seconds older than the latest insert; entries 2 seconds  *)
(* old or older are removed and the note just inserted is retained.        *)
C6_QueueWithinTwoSeconds ==
    /\ [](notesInQueue # <<>> =>
            \A i \in 1..Len(notesInQueue) :
                notesInQueue[Len(notesInQueue)].time - notesInQueue[i].time < 2000)
    /\ [][(ev'.op = "playNote" /\ ev'.accepted /\ nPlays' = nPlays + 1) =>
             /\ notesInQueue' # <<>>
             /\ notesInQueue'[Len(notesInQueue')] =
                    [note |-> lastNotesPlayed'[Len(lastNotesPlayed')], time |-> now]
             /\ \A i \in 1..Len(notesInQueue') : now - notesInQueue'[i].time < 2000
             /\ \A i \in 1..Len(notesInQueue) :
                    now - notesInQueue[i].time >= 2000 =>
                        \A j \in 1..Len(notesInQueue') :
                            notesInQueue'[j].time # notesInQueue[i].time]_vars

\* A second note, played exactly 2 seconds after the first, is alone in the queue
C6_Witness ==
    /\ ev.op = "playNote"
    /\ nPlays = 2
    /\ now = 2000
    /\ Len(notesInQueue) = 1
    /\ notesInQueue[1].time = 2000

(* C7: harmony generation is a no-op when fewer than 2 notes are queued:   *)
(* when no other note was played in the 2 seconds before a key press, so   *)
(* that after pruning the queue holds only the note just played, no        *)
(* harmony note is scheduled or requested for it, whatever the draw.       *)
C7_NoHarmonyForLoneNote ==
    [][(ev'.op = "playNote" /\ ev'.accepted /\ nPlays' = nPlays + 1
        /\ (\/ Len(notesInQueue') < 2
            \/ \A i \in 1..Len(notesInQueue) : now - notesInQueue[i].time >= 2000)) =>
          /\ timers' = timers
          /\ Len(notesInQueue') = 1
          /\ \A i \in 1..Len(emitted') : emitted'[i].what \in {"note", "chord"}]_vars

\* Two key presses 2 seconds apart: the second finds itself alone, no timer
C7_Witness ==
    /\ ev.op = "playNote"
    /\ nPlays = 2
    /\ Len(notesInQueue) = 1
    /\ notesInQueue[1].time >= 2000
    /\ timers = <<>>

\* The harmony note offset places above position i of a scale, octave o
HarmonyNote(scale, i, offset, o) ==
    LET n == Len(scale)
        k == (i + offset) % n
    IN scale[k + 1] \o ToString(IF k < i THEN o + 1 ELSE o)

(* C8: when harmony generation fires for a just-played note of pitch class *)
(* scale[i] and octave o (scale of length n), it schedules exactly two     *)
(* notes: scale[(i+2) mod n] and scale[(i+4) mod n], each at octave o+1 if *)
(* its index is lower than i (it wrapped) and at octave o otherwise.       *)
C8_ThirdAndFifthOfTheScale ==
    [][(ev'.op = "playNote" /\ timers' # timers) =>
          LET scale == SCALES[currentScale]
              played == lastNotesPlayed'[Len(lastNotesPlayed')]
              i == (CHOOSE k \in 1..Len(scale) : scale[k] = NotePitch(played)) - 1
              o == NoteOctave(played)
          IN /\ Len(timers') = Len(timers) + 2
             /\ SubSeq(timers', 1, Len(timers)) = timers
             /\ timers'[Len(timers) + 1].what = "third"
             /\ timers'[Len(timers) + 1].note = HarmonyNote(scale, i, 2, o)
             /\ timers'[Len(timers) + 2].what = "fifth"
             /\ timers'[Len(timers) + 2].note = HarmonyNote(scale, i, 4, o)]_vars

\* Pentatonic, the key d (G3, position 3 of 5): the third and the fifth both wrap
C8_Witness ==
    /\ ev.op = "playNote"
    /\ currentScale = "pentatonic"
    /\ lastNotesPlayed # <<>>
    /\ lastNotesPlayed[Len(lastNotesPlayed)] = "G3"
    /\ Len(timers) = 2
    /\ timers[1].note = "C4"
    /\ timers[2].note = "E4"

(* C9: for one harmony trigger the requests are ordered: the triggering    *)
(* note is requested first, the third is due 50 ms later and the fifth     *)
(* 100 ms later, the third is requested strictly before the fifth, and     *)
(* both at velocities (0.4, 0.3) lower than the triggering note's (0.7, or *)
(* 0.5 for the test note).                                                 *)
C9_TriggerThenThirdThenFifth ==
    /\ [][(ev'.op = "playNote" /\ timers' # timers) =>
             LET third == timers'[Len(timers) + 1]
                 fifth == timers'[Len(timers) + 2]
             IN /\ emitted' # <<>>
                /\ emitted'[1].what = "note"
                /\ emitted'[1].time = now
                /\ emitted'[1].velocity \in {70, 50}
                /\ third.what = "third" /\ third.due = now + 50
                /\ third.velocity = 40 /\ third.velocity < emitted'[1].velocity
                /\ fifth.what = "fifth" /\ fifth.due = now + 100
                /\ fifth.velocity = 30 /\ fifth.velocity < emitted'[1].velocity
                /\ third.trigger = fifth.trigger]_vars
    /\ [][ev'.op = "timer" =>
             \E i \in 1..Len(timers) :
                /\ timers' = SubSeq(timers, 1, i - 1) \o SubSeq(timers, i + 1, Len(timers))
                /\ timers[i].what = ev'.what
                /\ timers[i].trigger = ev'.trigger
                /\ now >= timers[i].due
                /\ \A k \in 1..Len(emitted') :
                      /\ emitted'[k].what = timers[i].what
                      /\ emitted'[k].velocity = timers[i].velocity
                      /\ emitted'[k].time >= timers[i].due
                /\ timers[i].what = "fifth" =>
                      \A j \in 1..Len(timers) :
                          ~(timers[j].what = "third" /\ timers[j].trigger = timers[i].trigger)]_vars

\* The fifth of a trigger is requested, 100 ms after the note that triggered
\* it at time 0; its third has run
C9_Witness ==
    /\ ev.op = "timer"
    /\ ev.what = "fifth"
    /\ timers = <<>>
    /\ Len(emitted) = 1
    /\ emitted[1].what = "fifth"
    /\ emitted[1].velocity = 30
    /\ emitted[1].time = 100

-----------------------------------------------------------------------------
(* C11: a chord symbol whose root letter (its first character) is not in   *)
(* the chromatic table resolves, without failing, to exactly 1 note: the   *)
(* root followed by the background octave 2.                               *)
C11_UnknownRootFallsBack ==
    (ev.op = "getChordNotes" /\ ~InChromaticTable(SubSeq(ev.chord, 1, 1))) =>
        /\ Len(ev.ret) = 1
        /\ ev.ret = << SubSeq(ev.chord, 1, 1) \o "2" >>

\* The symbol Hm: H is no pitch class of the table
C11_Witness ==
    /\ ev.op = "getChordNotes"
    /\ ev.chord = "Hm"
    /\ ev.ret = << "H2" >>

\* The three notes of a chord symbol of the registry, at octave 2
RegistryTriad(symbol) ==
    LET root == SubSeq(symbol, 1, 1)
        minor == \E i \in 1..Len(symbol) : SubSeq(symbol, i, i) = "m"
    IN << root \o "2",
          SemitonesAbove(root, IF minor THEN 3 ELSE 4) \o "2",
          SemitonesAbove(root, 7) \o "2" >>

ChordRequests(requests) == SelectSeq(requests, LAMBDA e : e.what = "chord")

(* C12: on every accepted playNote exactly one of two things happens:      *)
(* either the cursor is unchanged and no chord is requested, or, the draw  *)
(* being at most 0.2, exactly one chord is requested, at velocity 0.1, the *)
(* chord the cursor pointed to when the note was played, and the cursor    *)
(* advances by one, wrapping to 0 at the end of the active progression.    *)
(* Playing a note never changes the active progression.                    *)
C12_CursorAdvancesWithItsChord ==
    [][(ev'.op = "playNote" /\ ev'.accepted /\ nPlays' = nPlays + 1) =>
          LET progression == CHORD_PROGRESSIONS[currentProgression + 1]
              chords == ChordRequests(emitted')
          IN /\ currentProgression' = currentProgression
             /\ \/ /\ progressionIndex' = progressionIndex
                   /\ chords = <<>>
                \/ /\ ev'.lowDraw
                   /\ Len(chords) = 1
                   /\ chords[1].velocity = 10
                   /\ chords[1].notes = RegistryTriad(progression[progressionIndex + 1])
                   /\ progressionIndex' =
                          IF progressionIndex + 1 = Len(progression) THEN 0
                          ELSE progressionIndex + 1]_vars

\* The last chord (G) of the progression C, F, G is requested and the cursor
\* is back at 0
C12_Witness ==
    /\ ev.op = "playNote"
    /\ ev.lowDraw
    /\ currentProgression = 3
    /\ progressionIndex = 0
    /\ Len(emitted) = 2
    /\ emitted[2].what = "chord"
    /\ emitted[2].notes = << "G2", "B2", "D2" >>
    /\ emitted[2].velocity = 10

(* C13: a playNote that finds the audio engine not initialized starts a    *)
(* lazy initialization and drops the request: it requests no sound, and    *)
(* leaves the note history, the recent-note queue, the scale, the          *)
(* progression and the cursor unchanged; nothing requests the note later:  *)
(* the completion of an initialization requests its silent note only, and  *)
(* a note is requested only by a playNote that found a synth.              *)
C13_DroppedWhileUninitialised ==
    /\ [][(ev'.op = "playNote" /\ ~ev'.accepted) =>
             /\ synth = "null"
             /\ emitted' = <<>>
             /\ timers' = timers
             /\ UNCHANGED <<currentScale, currentProgression, progressionIndex,
                            lastNotesPlayed, notesInQueue>>
             /\ Len(initsAwaiting') = Len(initsAwaiting) + 1
             /\ initsAwaiting'[Len(initsAwaiting')].then = "log"]_vars
    /\ [][ev'.op \in {"initResume", "initFail"} =>
             \A i \in 1..Len(emitted') : emitted'[i].what = "silent"]_vars
    /\ [][(\E i \in 1..Len(emitted') : emitted'[i].what = "note") =>
             /\ synth # "null"
             /\ ev'.op = "playNote"
             /\ ev'.accepted
             /\ nPlays' = nPlays + 1]_vars

\* The lazy initialization of a dropped note has completed, at the default
\* volume, and no note has been played
C13_Witness ==
    /\ ev.op = "initResume"
    /\ synth = "live"
    /\ synthVolume = << -602 >>
    /\ nPlays = 0
    /\ lastNotesPlayed = <<>>
    /\ Len(emitted) = 1
    /\ emitted[1].what = "silent"

(* C14: after any sequence of accepted playNote calls the note history     *)
(* holds at most 8 notes, and it is, in order, the last min(n, 8) of the n *)
(* notes played, the most recent one last.                                 *)
C14_HistoryIsLastEight ==
    LET n == Len(allPlayed)
        kept == Min(n, 8)
    IN /\ Len(lastNotesPlayed) <= 8
       /\ Len(lastNotesPlayed) = kept
       /\ \A i \in 1..kept : lastNotesPlayed[i] = allPlayed[n - kept + i]

\* Ten notes played: the first two have left the history, and the first
\* differs from the third, which now heads it
C14_Witness ==
    /\ Len(allPlayed) = 10
    /\ Len(lastNotesPlayed) = 8
    /\ allPlayed[1] # allPlayed[3]
    /\ lastNotesPlayed[1] = allPlayed[3]
    /\ lastNotesPlayed[8] = allPlayed[10]

\* The note of a one-character key under a scale: the table of C2
KeyNoteTable(scaleName, key) ==
    LET scale == SCALES[scaleName]
        n == Len(scale)
        c == CodeOf[key]
        p == LetterPosition(key)
        d == c - 48
    IN IF IsLetterKey(key) THEN scale[(p % n) + 1] \o ToString(Min(3 + (p \div n), 5))
       ELSE IF IsDigitKey(key) THEN scale[(d % n) + 1] \o ToString(Min(2 + (d \div n), 4))
       ELSE scale[(c % n) + 1] \o ToString(Min(1 + ((c % 20) \div 10), 3))

(* C15: keyToNote is a pure function of the character and the current     *)
(* scale: a call leaves the scale, the progression, the cursor, the note   *)
(* history and the recent-note queue as they were, and what it returns for *)
(* a character depends on the scale selection alone: it is the same before *)
(* and after any playNote calls, harmony timers and progression changes.   *)
C15_KeyToNoteIsPure ==
    /\ [][ev'.op = "keyToNote" =>
             UNCHANGED <<currentScale, currentProgression, progressionIndex,
                         lastNotesPlayed, notesInQueue, timers>>]_vars
    /\ [](ev.op = "keyToNote" => ev.ret = KeyNoteTable(currentScale, ev.key))

\* keyToNote called after two plays, with a harmony pending and a
\* progression that has changed and advanced: Z is G5 under major
C15_Witness ==
    /\ ev.op = "keyToNote"
    /\ ev.key = "Z"
    /\ ev.ret = "G5"
    /\ currentScale = "major"
    /\ nPlays = 2
    /\ timers # <<>>
    /\ currentProgression # 0
    /\ progressionIndex # 0

(* C16: each key produces a unique sound: under any one scale of the       *)
(* registry no two different keys map to the same note, pitch class and    *)
(* octave, through keyToNote.                                              *)
C16_DistinctKeysDistinctNotes ==
    ev.op = "keyToNote" =>
        \A other \in InputKeys \ {ev.key} : keyToNoteIn(currentScale, other) # ev.ret

-----------------------------------------------------------------------------
(* C17: while the canvas is shown an Escape key press can always be         *)
(* handled, and handling it returns the application to the welcome screen;  *)
(* that key press adds no key visual, requests no note and records none;    *)
(* and the application goes from the welcome screen to the canvas by the    *)
(* start action of the welcome screen only.                                 *)
C17_EscapeReturnsToWelcome ==
    /\ [](appState = "active" /\ thens = <<>> => ENABLED Escape)
    /\ [][ui'.op = "keyDown" /\ ui'.key = "Escape"
            => /\ appState = "active"
               /\ appState' = "welcome"
               /\ ~ui'.added
               /\ activeKeys' = <<>>
               /\ emitted' = <<>>
               /\ nPlays' = nPlays
               /\ allPlayed' = allPlayed]_vars
    /\ [][appState = "welcome" /\ appState' = "active" => ui'.op = "start"]_vars

\* Escape pressed on a canvas that showed a visual and had played a note on a
\* live engine; the engine is gone with the canvas.
C17_Witness ==
    /\ ui.op = "keyDown"
    /\ ui.key = "Escape"
    /\ appState = "welcome"
    /\ nPlays = 1
    /\ synth = "null"
    /\ activeKeys = <<>>

-----------------------------------------------------------------------------
(* C18: the audio engine is initialized only once: a call of                *)
(* initAudioEngine creates a synth and an effects chain only when there is  *)
(* none, whichever of the mount effect, the key handler and playNote made   *)
(* the call and however the calls interleave, a call that starts while      *)
(* another awaits the audio context included.                               *)
C18_SynthCreatedOnlyWhenNone ==
    [][ev'.op = "initResume" => synth = "null" /\ reverb = "null" /\ delay = "null"]_vars

-----------------------------------------------------------------------------
(* C19: whenever the canvas holds audioInitialized = true the synth exists, *)
(* after mounting and after every render that runs the audio effect and its *)
(* cleanup again; and a key press the canvas handles with audioInitialized  *)
(* true and sound enabled requests the note of that key.                    *)
C19_InitializedMeansLive ==
    /\ [](appState = "active" /\ audioInitialized => synth = "live")
    /\ [][/\ ui'.op = "keyDown"
           /\ ui'.added
           /\ rendered.audioInitialized
           /\ rendered.settings.soundEnabled
           => /\ Len(emitted') >= 1
              /\ emitted'[1].what = "note"
              /\ emitted'[1].notes = << keyToNote(ui'.key) >>]_vars

-----------------------------------------------------------------------------
(* C20: whenever a key press or a promise callback of the canvas has a note *)
(* requested from the synth, the synth's volume is the one of the settings  *)
(* most recently configured, gainToDb(volume / 100), whatever mounts,       *)
(* settings applications, cleanups and initializations came before.         *)
C20_NotesAtConfiguredVolume ==
    [][/\ ui'.op \in {"keyDown", "then"}
       /\ \E i \in 1..Len(emitted') : emitted'[i].what = "note"
       => synthVolume' = << gainToDb(percentGain(homeSettings'.volume)) >>]_vars

-----------------------------------------------------------------------------
(* C21: duplicate keys are prevented: in every state the canvas's list of   *)
(* active key visuals holds no two entries for the same key, also when two  *)
(* key-down events for one key are handled before the canvas has rendered   *)
(* again with the first visual.                                             *)
C21_NoDuplicateVisuals ==
    \A i \in 1..Len(activeKeys) : \A j \in 1..Len(activeKeys) :
        i # j => activeKeys[i].key # activeKeys[j].key

-----------------------------------------------------------------------------
=============================================================================
